---- MODULE Spec2Model ----
(***************************************************************************)
(* Deposit / redeem settlement core of the money market                    *)
(* (contracts/market/src/deposit.rs).                                      *)
(*                                                                         *)
(* The persisted State, the pool's bank balance, the receipt token's       *)
(* circulating supply and the queue of outbound messages are the state.    *)
(* Spec: one action per handler call (the host's commit-or-discard         *)
(* included), one per queued message the host executes, and the            *)
(* environment (blocks passing, borrowers drawing and repaying).           *)
(* SpecRate: the rate calculator and the pricing formulas applied to a     *)
(* grid of inputs.                                                         *)
(*                                                                         *)
(* Decimal256 is a fixed-point number stored as an integer scaled by       *)
(* DECIMAL_FRACTIONAL; Uint256 is a natural number.  Both abort the call    *)
(* (panic) on subtraction below zero and on division by zero.              *)
(***************************************************************************)
EXTENDS Integers, Sequences, FiniteSets, TLC

VARIABLES
    storage,    \* the contract's key-value store: "config" and "state"
    bank,       \* base-asset balance held by the contract (bank module)
    supply,     \* circulating supply of the receipt token (token contract)
    height,     \* current block height
    queue,      \* messages returned by the last successful call, not yet executed
    last        \* what the last handler call was given and what it did

vars == <<storage, bank, supply, height, queue, last>>

----------------------------------------------------------------------------
(* Bounds of the model *)

MaxDeposit == 3     \* largest amount of one coin attached to a deposit
MaxBurn == 3        \* largest burn_amount passed to redeem_stable
MaxBank == 4        \* deposits and repayments stop when the pool holds this much
MaxHeight == 1      \* blocks stop passing at this height
MaxBorrow == 1      \* largest single loan drawn or repaid
MaxLoans == 1       \* borrowing stops when this much principal and interest is owed
TaxCap == 1         \* cap of the transfer tax
MaxSupply == 3      \* largest receipt supply the rate calculator is given

----------------------------------------------------------------------------
(* Fixed-point arithmetic: cosmwasm_bignumber::{Decimal256, Uint256} *)

\* Decimal256::DECIMAL_FRACTIONAL.  The library's scale is 10^18; the model
\* keeps two fractional digits, which is enough to hold the rate 0.99 and to
\* make every truncation of the code happen.
DECIMAL_FRACTIONAL == 100

\* The value of an expression whose evaluation aborted (assert! in the
\* library: Decimal256 - Decimal256 below zero).
Panicked == 0 - 1

Decimal256_one == DECIMAL_FRACTIONAL

Decimal256_from_uint256(v) == v * DECIMAL_FRACTIONAL

\* Decimal256 / Decimal256: self.0 * DECIMAL_FRACTIONAL / rhs.0, truncated
Decimal256_div(a, b) == (a * DECIMAL_FRACTIONAL) \div b

\* Decimal256 * Decimal256: self.0 * rhs.0 / DECIMAL_FRACTIONAL, truncated
Decimal256_mul(a, b) == (a * b) \div DECIMAL_FRACTIONAL

\* Uint256 * Decimal256: self.multiply_ratio(rhs.0, DECIMAL_FRACTIONAL)
Uint256_mul_decimal(u, d) == (u * d) \div DECIMAL_FRACTIONAL

\* Uint256 / Decimal256: self.multiply_ratio(DECIMAL_FRACTIONAL, rhs.0)
Uint256_div_decimal(u, d) == (u * DECIMAL_FRACTIONAL) \div d

----------------------------------------------------------------------------
(* Config and State *)

StableDenom == "uusd"
OtherDenom == "ukrw"
ATerraContract == "aterra"
MarketContract == "market"
Users == {"alice"}

Config == [stable_denom |-> StableDenom,
           aterra_contract |-> ATerraContract,
           contract_addr |-> MarketContract]

\* State as created at deployment: zero balances.
InitialState == [total_liabilities |-> 0,
                 total_reserves |-> 0,
                 prev_aterra_supply |-> 0,
                 last_interest_updated |-> 0,
                 last_reward_updated |-> 0]

read_config(store) == store.config

read_state(store) == store.state

store_state(store, state) == [store EXCEPT !.state = state]

----------------------------------------------------------------------------
(* External collaborators.  env is what one call sees of the outside: the  *)
(* attached funds, the block height, the answers of the balance and supply *)
(* queries, which collaborator (if any) fails during this call, and the    *)
(* rates the interest model and the treasury report.                       *)

Faults == {"none", "accrual", "aterra_addr", "supply", "self_addr", "balance", "tax"}
\* <<interest factor of the elapsed blocks, reserve factor>>
AccrualRates == {<<0, 0>>, <<50, 50>>, <<200, 50>>}
TaxRates == {0, 50}

\* deps.api.human_address(canonical): fails for an address that has no
\* human form; the same address always gives the same answer.
human_address(env, addr) ==
    IF (addr = ATerraContract /\ env.fault = "aterra_addr")
        \/ (addr = MarketContract /\ env.fault = "self_addr")
    THEN [err |-> "AddressResolutionFailure", value |-> addr]
    ELSE [err |-> "Ok", value |-> addr]

\* moneymarket::querier::query_supply
query_supply(env) ==
    IF env.fault = "supply"
    THEN [err |-> "UpstreamQueryFailure", value |-> 0]
    ELSE [err |-> "Ok", value |-> env.supply]

\* moneymarket::querier::query_balance
query_balance(env) ==
    IF env.fault = "balance"
    THEN [err |-> "UpstreamQueryFailure", value |-> 0]
    ELSE [err |-> "Ok", value |-> env.bank]

\* crate::borrow::compute_interest: the accrual engine.  Nothing happens
\* within the block of the checkpoint; otherwise interest accrues on the
\* liabilities, a share of it is retained as reserves, and the checkpoint
\* moves to the current block.
compute_interest(env, state, block_height, deposit_amount) ==
    IF env.fault = "accrual"
    THEN [err |-> "AccrualFailure", state |-> state]
    ELSE IF state.last_interest_updated >= block_height
    THEN [err |-> "Ok", state |-> state]
    ELSE LET interest_accrued ==
                 Decimal256_mul(state.total_liabilities, env.interest_factor)
         IN [err |-> "Ok",
             state |-> [state EXCEPT
                 !.total_liabilities = @ + interest_accrued,
                 !.total_reserves =
                     @ + Decimal256_mul(interest_accrued, env.reserve_factor),
                 !.last_interest_updated = block_height]]

\* crate::borrow::compute_reward: advances the reward checkpoint.
compute_reward(state, block_height) ==
    IF state.last_reward_updated >= block_height
    THEN state
    ELSE [state EXCEPT !.last_reward_updated = block_height]

\* The transfer tax of the bank module on an amount it is asked to send.
compute_tax(env, amount) ==
    LET tax == amount
                 - (amount * DECIMAL_FRACTIONAL)
                     \div (DECIMAL_FRACTIONAL + env.tax_rate)
    IN IF tax < TaxCap THEN tax ELSE TaxCap

\* moneymarket::querier::deduct_tax: the coin net of the tax on it.
deduct_tax(env, coin) ==
    IF env.fault = "tax"
    THEN [err |-> "UpstreamQueryFailure", value |-> coin]
    ELSE [err |-> "Ok",
          value |-> [coin EXCEPT !.amount = @ - compute_tax(env, @)]]

----------------------------------------------------------------------------
(* Exchange rate calculator *)

\* Faulty variant: the bootstrap rate is zero.
compute_exchange_rate_raw_zero_bootstrap(state, aterra_supply, contract_balance) ==
    IF aterra_supply = 0
    THEN 0
    ELSE LET gross == Decimal256_from_uint256(contract_balance)
                        + state.total_liabilities
         IN IF gross < state.total_reserves
            THEN Panicked
            ELSE Decimal256_div(gross - state.total_reserves,
                                Decimal256_from_uint256(aterra_supply))

\* Faulty variant: the reserves are counted as the depositors'.
compute_exchange_rate_raw_reserves_added(state, aterra_supply, contract_balance) ==
    IF aterra_supply = 0
    THEN Decimal256_one
    ELSE Decimal256_div(Decimal256_from_uint256(contract_balance)
                            + state.total_liabilities + state.total_reserves,
                        Decimal256_from_uint256(aterra_supply))

compute_exchange_rate_raw(state, aterra_supply, contract_balance) ==
    IF aterra_supply = 0
    THEN Decimal256_one
    ELSE LET gross == Decimal256_from_uint256(contract_balance)
                        + state.total_liabilities
         IN IF gross < state.total_reserves
            THEN Panicked
            ELSE Decimal256_div(gross - state.total_reserves,
                                Decimal256_from_uint256(aterra_supply))

\* deposit_amount.unwrap_or_else(Uint256::zero); None is NoDeposit
NoDeposit == 0 - 1
unwrap_or_zero(opt) == IF opt = NoDeposit THEN 0 ELSE opt

\* Faulty variant: the funds just received are priced in.
priced_balance_measured(measured, deposit_amount) == measured

\* Faulty variant: something is subtracted although no deposit is pending.
priced_balance_less_one(measured, deposit_amount) ==
    IF deposit_amount = NoDeposit /\ measured > 0
    THEN measured - 1
    ELSE measured - unwrap_or_zero(deposit_amount)

\* query_balance(..)? - deposit_amount.unwrap_or_else(Uint256::zero)
priced_balance(measured, deposit_amount) ==
    measured - unwrap_or_zero(deposit_amount)

compute_exchange_rate(env, config, state, deposit_amount) ==
    LET aterra == human_address(env, config.aterra_contract)
        aterra_supply == query_supply(env)
        self == human_address(env, config.contract_addr)
        measured == query_balance(env)
        balance == priced_balance(measured.value, deposit_amount)
        rate == compute_exchange_rate_raw(state, aterra_supply.value, balance)
    IN  IF aterra.err # "Ok" THEN [err |-> aterra.err, rate |-> 0]
        ELSE IF aterra_supply.err # "Ok" THEN [err |-> aterra_supply.err, rate |-> 0]
        ELSE IF self.err # "Ok" THEN [err |-> self.err, rate |-> 0]
        ELSE IF measured.err # "Ok" THEN [err |-> measured.err, rate |-> 0]
        ELSE IF balance < 0 THEN [err |-> "Panic", rate |-> 0]
        ELSE IF rate = Panicked THEN [err |-> "Panic", rate |-> 0]
        ELSE [err |-> "Ok", rate |-> rate]

\* Faulty variant: the guard's verdict is dropped (a missing `?`).
assert_redeem_amount_ignored(config, state, current_balance, redeem_amount) ==
    "Ok"

\* Faulty variant: the guard forgets the reserves.
assert_redeem_amount_no_reserves(config, state, current_balance, redeem_amount) ==
    IF redeem_amount > current_balance THEN "InsufficientLiquidity" ELSE "Ok"

\* Faulty variant: the boundary is exclusive (>= instead of >).
assert_redeem_amount_strict(config, state, current_balance, redeem_amount) ==
    IF Decimal256_from_uint256(redeem_amount) + state.total_reserves
         >= Decimal256_from_uint256(current_balance)
    THEN "InsufficientLiquidity"
    ELSE "Ok"

\* Faulty variant: a redeem that is worth nothing is turned down.
assert_redeem_amount_positive(config, state, current_balance, redeem_amount) ==
    IF redeem_amount = 0
         \/ Decimal256_from_uint256(redeem_amount) + state.total_reserves
              > Decimal256_from_uint256(current_balance)
    THEN "InsufficientLiquidity"
    ELSE "Ok"

assert_redeem_amount(config, state, current_balance, redeem_amount) ==
    LET balance == Decimal256_from_uint256(current_balance)
        amount == Decimal256_from_uint256(redeem_amount)
    IN IF amount + state.total_reserves > balance
       THEN "InsufficientLiquidity"
       ELSE "Ok"

----------------------------------------------------------------------------
(* Handlers.  A handler's result is what it returns (result, messages),    *)
(* the store as the handler left it (storage), and a record of the values  *)
(* it computed on the way (obs), kept for the properties below.            *)

\* Faulty variant: the first coin is taken whatever its denomination.
find_amount_any_denom(coins, denom) ==
    IF coins = << >> THEN 0 ELSE Head(coins).amount

\* sent_funds.iter().find(|c| c.denom == denom).map(|c| c.amount)
\*     .unwrap_or_else(Uint256::zero)
RECURSIVE find_amount(_, _)
find_amount(coins, denom) ==
    IF coins = << >> THEN 0
    ELSE IF Head(coins).denom = denom THEN Head(coins).amount
    ELSE find_amount(Tail(coins), denom)

\* Faulty variant: the deposit is multiplied by the rate.
mint_amount_of_multiplied(deposit_amount, exchange_rate) ==
    Uint256_mul_decimal(deposit_amount, exchange_rate)

\* Faulty variant: the quotient is rounded up.
mint_amount_of_rounded_up(deposit_amount, exchange_rate) ==
    (deposit_amount * DECIMAL_FRACTIONAL + exchange_rate - 1) \div exchange_rate

\* deposit_amount / exchange_rate
mint_amount_of(deposit_amount, exchange_rate) ==
    Uint256_div_decimal(deposit_amount, exchange_rate)

\* Faulty variant: the product is rounded up.
redeem_amount_of_rounded_up(burn_amount, exchange_rate) ==
    (burn_amount * exchange_rate + DECIMAL_FRACTIONAL - 1) \div DECIMAL_FRACTIONAL

\* Uint256::from(burn_amount) * exchange_rate
redeem_amount_of(burn_amount, exchange_rate) ==
    Uint256_mul_decimal(burn_amount, exchange_rate)

NoObs(state) ==
    [deposit_amount |-> 0,      \* amount of the base asset found in the funds
     accrued |-> FALSE,         \* the accrual step ran to its end
     hint |-> NoDeposit,        \* the deposit amount given to the accrual step
     state |-> state,           \* State in memory when the handler returned
     priced |-> FALSE,          \* the exchange rate was computed
     priced_on |-> state,       \* State the exchange rate was computed on
     rate |-> 0,                \* the exchange rate
     amount |-> 0,              \* mint_amount or redeem_amount
     guarded |-> FALSE,         \* the solvency guard was evaluated
     guard_balance |-> 0,       \* balance the solvency guard compared with
     stored |-> FALSE]          \* store_state was called

Failed(store, kind, obs) ==
    [result |-> kind, storage |-> store, messages |-> << >>, obs |-> obs]

MintMsg(contract, recipient, amount) ==
    [type |-> "Mint", contract |-> contract, recipient |-> recipient,
     amount |-> amount]

BurnMsg(contract, amount) ==
    [type |-> "Burn", contract |-> contract, recipient |-> contract,
     amount |-> amount]

SendMsg(from, to, coin) ==
    [type |-> "Send", contract |-> from, recipient |-> to,
     amount |-> coin.amount]

\* Faulty variant: one receipt token more is minted than is booked.
deposit_messages_one_more(contract_addr, recipient, mint_amount) ==
    << MintMsg(contract_addr, recipient, mint_amount + 1) >>

\* Faulty variant: the mint is issued twice.
deposit_messages_twice(contract_addr, recipient, mint_amount) ==
    << MintMsg(contract_addr, recipient, mint_amount),
       MintMsg(contract_addr, recipient, mint_amount) >>

\* messages: vec![Mint { recipient: sender, amount: mint_amount }]
deposit_messages(contract_addr, recipient, mint_amount) ==
    << MintMsg(contract_addr, recipient, mint_amount) >>

\* Faulty variant: the pool pays before the receipt tokens are burnt.
redeem_messages_send_first(contract_addr, burn_amount, from, to, coin) ==
    << SendMsg(from, to, coin), BurnMsg(contract_addr, burn_amount) >>

\* Faulty variant: the receipt tokens are not burnt.
redeem_messages_no_burn(contract_addr, burn_amount, from, to, coin) ==
    << SendMsg(from, to, coin) >>

\* messages: vec![Burn { amount: burn_amount }, BankMsg::Send { .. }]
redeem_messages(contract_addr, burn_amount, from, to, coin) ==
    << BurnMsg(contract_addr, burn_amount), SendMsg(from, to, coin) >>

\* Faulty variant: the subtraction stops at zero instead of aborting.
Uint256_sub_saturating(a, b) == IF a < b THEN 0 ELSE a - b

\* Uint256 - Uint256: assert!(self.0 >= rhs.0)
Uint256_sub(a, b) == IF a < b THEN Panicked ELSE a - b

deposit_stable(store, env) ==
    LET config == read_config(store)
        deposit_amount == find_amount(env.sent_funds, config.stable_denom)
        state0 == read_state(store)
        obs0 == [NoObs(state0) EXCEPT !.deposit_amount = deposit_amount]
    IN
    IF deposit_amount = 0 THEN Failed(store, "InvalidInput", obs0)
    ELSE
    LET ci == compute_interest(env, state0, env.height, deposit_amount)
        obs1 == [obs0 EXCEPT !.hint = deposit_amount]
    IN
    IF ci.err # "Ok" THEN Failed(store, ci.err, obs1)
    ELSE
    LET state1 == compute_reward(ci.state, env.height)
        obs2 == [obs1 EXCEPT !.accrued = TRUE, !.state = state1]
        er == compute_exchange_rate(env, config, state1, deposit_amount)
    IN
    IF er.err # "Ok" THEN Failed(store, er.err, obs2)
    ELSE
    LET exchange_rate == er.rate
        obs3 == [obs2 EXCEPT !.priced = TRUE, !.priced_on = state1,
                             !.rate = exchange_rate]
    IN
    IF exchange_rate = 0 THEN Failed(store, "Panic", obs3)
    ELSE
    LET mint_amount == mint_amount_of(deposit_amount, exchange_rate)
        state2 == [state1 EXCEPT !.prev_aterra_supply = @ + mint_amount]
        store2 == store_state(store, state2)
        obs4 == [obs3 EXCEPT !.amount = mint_amount, !.state = state2,
                             !.stored = TRUE]
        contract_addr == human_address(env, config.aterra_contract)
    IN
    IF contract_addr.err # "Ok" THEN Failed(store2, contract_addr.err, obs4)
    ELSE [result |-> "Ok",
          storage |-> store2,
          messages |-> deposit_messages(contract_addr.value, env.sender,
                                        mint_amount),
          obs |-> obs4]

\* Faulty variant: the rate and the solvency guard read the State as
\* stored, before the accrual of this call.
redeem_stable_priced_before_accrual(store, env, sender, burn_amount) ==
    LET config == read_config(store)
        state0 == read_state(store)
        obs0 == NoObs(state0)
        ci == compute_interest(env, state0, env.height, NoDeposit)
    IN
    IF ci.err # "Ok" THEN Failed(store, ci.err, obs0)
    ELSE
    LET state1 == compute_reward(ci.state, env.height)
        obs2 == [obs0 EXCEPT !.accrued = TRUE, !.state = state1]
        er == compute_exchange_rate(env, config, state0, NoDeposit)
    IN
    IF er.err # "Ok" THEN Failed(store, er.err, obs2)
    ELSE
    LET exchange_rate == er.rate
        redeem_amount == redeem_amount_of(burn_amount, exchange_rate)
        obs3 == [obs2 EXCEPT !.priced = TRUE, !.priced_on = state0,
                             !.rate = exchange_rate, !.amount = redeem_amount]
        current_balance == query_balance(env)
    IN
    IF current_balance.err # "Ok" THEN Failed(store, current_balance.err, obs3)
    ELSE
    LET guard == assert_redeem_amount(config, state0, current_balance.value,
                                      redeem_amount)
        obs4 == [obs3 EXCEPT !.guarded = TRUE,
                             !.guard_balance = current_balance.value]
    IN
    IF guard # "Ok" THEN Failed(store, guard, obs4)
    ELSE
    LET remaining == Uint256_sub(state1.prev_aterra_supply, burn_amount)
    IN
    IF remaining = Panicked THEN Failed(store, "Panic", obs4)
    ELSE
    LET state2 == [state1 EXCEPT !.prev_aterra_supply = remaining]
        store2 == store_state(store, state2)
        obs5 == [obs4 EXCEPT !.state = state2, !.stored = TRUE]
        contract_addr == human_address(env, config.aterra_contract)
        net == deduct_tax(env, [denom |-> config.stable_denom,
                                amount |-> redeem_amount])
    IN
    IF contract_addr.err # "Ok" THEN Failed(store2, contract_addr.err, obs5)
    ELSE IF net.err # "Ok" THEN Failed(store2, net.err, obs5)
    ELSE [result |-> "Ok",
          storage |-> store2,
          messages |-> redeem_messages(contract_addr.value, burn_amount,
                                       MarketContract, sender, net.value),
          obs |-> obs5]

redeem_stable(store, env, sender, burn_amount) ==
    LET config == read_config(store)
        state0 == read_state(store)
        obs0 == NoObs(state0)
        ci == compute_interest(env, state0, env.height, NoDeposit)
    IN
    IF ci.err # "Ok" THEN Failed(store, ci.err, obs0)
    ELSE
    LET state1 == compute_reward(ci.state, env.height)
        obs2 == [obs0 EXCEPT !.accrued = TRUE, !.state = state1]
        er == compute_exchange_rate(env, config, state1, NoDeposit)
    IN
    IF er.err # "Ok" THEN Failed(store, er.err, obs2)
    ELSE
    LET exchange_rate == er.rate
        redeem_amount == redeem_amount_of(burn_amount, exchange_rate)
        obs3 == [obs2 EXCEPT !.priced = TRUE, !.priced_on = state1,
                             !.rate = exchange_rate, !.amount = redeem_amount]
        current_balance == query_balance(env)
    IN
    IF current_balance.err # "Ok" THEN Failed(store, current_balance.err, obs3)
    ELSE
    LET guard == assert_redeem_amount(config, state1, current_balance.value,
                                      redeem_amount)
        obs4 == [obs3 EXCEPT !.guarded = TRUE,
                             !.guard_balance = current_balance.value]
    IN
    IF guard # "Ok" THEN Failed(store, guard, obs4)
    ELSE
    LET remaining == Uint256_sub(state1.prev_aterra_supply, burn_amount)
    IN
    IF remaining = Panicked THEN Failed(store, "Panic", obs4)
    ELSE
    LET state2 == [state1 EXCEPT !.prev_aterra_supply = remaining]
        store2 == store_state(store, state2)
        obs5 == [obs4 EXCEPT !.state = state2, !.stored = TRUE]
        contract_addr == human_address(env, config.aterra_contract)
        net == deduct_tax(env, [denom |-> config.stable_denom,
                                amount |-> redeem_amount])
    IN
    IF contract_addr.err # "Ok" THEN Failed(store2, contract_addr.err, obs5)
    ELSE IF net.err # "Ok" THEN Failed(store2, net.err, obs5)
    ELSE [result |-> "Ok",
          storage |-> store2,
          messages |-> redeem_messages(contract_addr.value, burn_amount,
                                       MarketContract, sender, net.value),
          obs |-> obs5]

----------------------------------------------------------------------------
(* The host: it credits the attached funds, runs the handler on the store, *)
(* keeps the handler's writes and queues its messages when the handler     *)
(* returns Ok, and discards both when it returns an error or aborts.       *)

Coin(denom, amount) == [denom |-> denom, amount |-> amount]

\* Attached funds: coins in the order of their denominations, one per denomination.
FundsChoices ==
    {<< >>, << Coin(OtherDenom, 1) >>}
    \cup {<< Coin(StableDenom, a) >> : a \in 0..MaxDeposit}
    \cup {<< Coin(OtherDenom, 1), Coin(StableDenom, 1) >>}

RECURSIVE credited(_, _)
credited(coins, denom) ==
    IF coins = << >> THEN 0
    ELSE (IF Head(coins).denom = denom THEN Head(coins).amount ELSE 0)
         + credited(Tail(coins), denom)

NoCall ==
    [op |-> "none", result |-> "none", funds |-> << >>, burn |-> 0,
     sender |-> "none", fault |-> "none", tax_rate |-> 0, height |-> 0,
     pre_state |-> InitialState, pre_bank |-> 0, pre_supply |-> 0,
     env_bank |-> 0, obs |-> NoObs(InitialState)]

Commits(r) == r.result = "Ok"

Settle(r, call, credit) ==
    /\ storage' = IF Commits(r) THEN r.storage ELSE storage
    /\ bank' = IF Commits(r) THEN bank + credit ELSE bank
    /\ queue' = IF Commits(r) THEN r.messages ELSE << >>
    /\ last' = [call EXCEPT !.result = r.result, !.obs = r.obs]
    /\ UNCHANGED <<supply, height>>

Init ==
    /\ storage = [config |-> Config, state |-> InitialState]
    /\ bank = 0
    /\ supply = 0
    /\ height = 0
    /\ queue = << >>
    /\ last = NoCall

\* No transaction is in progress: the last one has ended.
Idle == queue = << >> /\ last.op = "none"

Deposit(funds, sender, fault, rates) ==
    /\ Idle
    /\ bank + credited(funds, StableDenom) <= MaxBank
    /\ LET credit == credited(funds, StableDenom)
           env == [sent_funds |-> funds, sender |-> sender, height |-> height,
                   bank |-> bank + credit, supply |-> supply, fault |-> fault,
                   interest_factor |-> rates[1], reserve_factor |-> rates[2],
                   tax_rate |-> 0]
           call == [NoCall EXCEPT !.op = "deposit", !.funds = funds,
                       !.sender = sender, !.fault = fault, !.height = height,
                       !.pre_state = read_state(storage), !.pre_bank = bank,
                       !.pre_supply = supply, !.env_bank = bank + credit]
       IN Settle(deposit_stable(storage, env), call, credit)

Redeem(burn_amount, sender, fault, rates, tax_rate) ==
    /\ Idle
    /\ LET env == [sent_funds |-> << >>, sender |-> ATerraContract,
                   height |-> height, bank |-> bank, supply |-> supply,
                   fault |-> fault, interest_factor |-> rates[1],
                   reserve_factor |-> rates[2], tax_rate |-> tax_rate]
           call == [NoCall EXCEPT !.op = "redeem", !.burn = burn_amount,
                       !.sender = sender, !.fault = fault, !.tax_rate = tax_rate,
                       !.height = height,
                       !.pre_state = read_state(storage), !.pre_bank = bank,
                       !.pre_supply = supply, !.env_bank = bank]
       IN Settle(redeem_stable(storage, env, sender, burn_amount), call, 0)

\* The host executes the queued messages in order.
ExecuteMint ==
    /\ queue # << >>
    /\ Head(queue).type = "Mint"
    /\ supply' = supply + Head(queue).amount
    /\ queue' = Tail(queue)
    /\ UNCHANGED <<storage, bank, height, last>>

ExecuteBurn ==
    /\ queue # << >>
    /\ Head(queue).type = "Burn"
    /\ Head(queue).amount <= supply
    /\ supply' = supply - Head(queue).amount
    /\ queue' = Tail(queue)
    /\ UNCHANGED <<storage, bank, height, last>>

\* The pool pays the amount sent and the tax on it.
ExecuteSend ==
    /\ queue # << >>
    /\ Head(queue).type = "Send"
    /\ LET sent == Head(queue).amount
           tax == compute_tax([tax_rate |-> last.tax_rate], sent)
       IN /\ sent + tax <= bank
          /\ bank' = bank - (sent + tax)
    /\ queue' = Tail(queue)
    /\ UNCHANGED <<storage, supply, height, last>>

\* The transaction of the last call ends once its messages are executed (or
\* at once, when the call failed).
EndTransaction ==
    /\ queue = << >>
    /\ last.op # "none"
    /\ last' = NoCall
    /\ UNCHANGED <<storage, bank, supply, height, queue>>

\* The environment: blocks pass; borrowers draw loans from the pool and repay.
AdvanceBlock ==
    /\ Idle
    /\ height < MaxHeight
    /\ height' = height + 1
    /\ UNCHANGED <<storage, bank, supply, queue, last>>

Borrow(amount) ==
    /\ Idle
    /\ Decimal256_from_uint256(amount) + storage.state.total_reserves
         <= Decimal256_from_uint256(bank)
    /\ storage.state.total_liabilities + Decimal256_from_uint256(amount)
         <= Decimal256_from_uint256(MaxLoans)
    /\ bank' = bank - amount
    /\ storage' = [storage EXCEPT !.state.total_liabilities =
                                      @ + Decimal256_from_uint256(amount)]
    /\ UNCHANGED <<supply, height, queue, last>>

Repay(amount) ==
    /\ Idle
    /\ Decimal256_from_uint256(amount) <= storage.state.total_liabilities
    /\ bank + amount <= MaxBank
    /\ bank' = bank + amount
    /\ storage' = [storage EXCEPT !.state.total_liabilities =
                                      @ - Decimal256_from_uint256(amount)]
    /\ UNCHANGED <<supply, height, queue, last>>

DepositCall ==
    \E funds \in FundsChoices, sender \in Users, fault \in Faults \ {"tax"},
       rates \in AccrualRates :
        Deposit(funds, sender, fault, rates)

RedeemCall ==
    \E burn_amount \in 0..MaxBurn, sender \in Users, fault \in Faults,
       rates \in AccrualRates, tax_rate \in TaxRates :
        Redeem(burn_amount, sender, fault, rates, tax_rate)

BorrowCall == \E amount \in 1..MaxBorrow : Borrow(amount)

RepayCall == \E amount \in 1..MaxBorrow : Repay(amount)

Next ==
    \/ DepositCall
    \/ RedeemCall
    \/ ExecuteMint
    \/ ExecuteBurn
    \/ ExecuteSend
    \/ EndTransaction
    \/ AdvanceBlock
    \/ BorrowCall
    \/ RepayCall

Spec == Init /\ [][Next]_vars

----------------------------------------------------------------------------
(* Properties of the handlers.  last is the call of the transaction in     *)
(* progress: its inputs, the State, balance and supply it started from     *)
(* (pre_state, pre_bank, pre_supply) and what the handler computed (obs).  *)

IsCall == last.op \in {"deposit", "redeem"}

\* The funds hold no positive amount of the base asset.
NoBaseAsset(funds) ==
    \A i \in DOMAIN funds :
        funds[i].denom = StableDenom => funds[i].amount = 0

\* rate is (balance + liabilities - reserves) / aterra_supply truncated to
\* the fixed-point scale, or one when there is no supply.
RateIs(rate, state, aterra_supply, balance) ==
    LET net == Decimal256_from_uint256(balance) + state.total_liabilities
                 - state.total_reserves
    IN IF aterra_supply = 0
       THEN rate = DECIMAL_FRACTIONAL
       ELSE /\ net >= 0
            /\ rate * aterra_supply <= net
            /\ net < (rate + 1) * aterra_supply

\* The solvency condition of a redeem that has priced amount.
Insolvent(amount, state, balance) ==
    amount * DECIMAL_FRACTIONAL + state.total_reserves
        > balance * DECIMAL_FRACTIONAL

\* The call cannot succeed: it deposits nothing, a collaborator it consults
\* fails, or the redeem it prices breaches the solvency guard.
MustFail ==
    \/ last.result # "Ok"
    \/ last.fault # "none"
    \/ (last.op = "deposit" /\ NoBaseAsset(last.funds))
    \/ (last.op = "redeem" /\ last.obs.priced
          /\ Insolvent(last.obs.amount, last.obs.priced_on, last.pre_bank))

\* C1: a call that fails at any step (zero deposit, accrual, queries,
\* solvency guard, address resolution, tax deduction) leaves the persisted
\* State, the pool and the supply as they were and queues no command, also
\* when the handler had already called store_state.
C1_Atomicity ==
    (IsCall /\ MustFail) =>
        /\ last.result # "Ok"
        /\ read_state(storage) = last.pre_state
        /\ queue = << >>
        /\ bank = last.pre_bank
        /\ supply = last.pre_supply

C1_Witness ==
    /\ last.op = "redeem"
    /\ last.fault = "tax"
    /\ last.result = "UpstreamQueryFailure"
    /\ last.obs.stored
    /\ last.obs.state # last.pre_state
    /\ read_state(storage) = last.pre_state
    /\ queue = << >>

\* Scenario C of the specification: burning 500,000 at rate 0.99 is worth
\* 495,000, which a pool of 400,000 with reserves of 10,000 cannot pay.
ScenarioC ==
    /\ redeem_amount_of(500000, 99) = 495000
    /\ assert_redeem_amount(Config,
           [InitialState EXCEPT
               !.total_reserves = Decimal256_from_uint256(10000)],
           400000, redeem_amount_of(500000, 99)) = "InsufficientLiquidity"

\* C2: a redeem fails with the insufficient-liquidity error exactly when
\* redeem_amount + total_reserves > current_balance; at equality it passes
\* the guard.
C2_SolvencyGuard ==
    /\ ScenarioC
    /\ last.op = "redeem" =>
        IF last.obs.priced
        THEN /\ last.obs.guarded
             /\ (last.result = "InsufficientLiquidity")
                  <=> Insolvent(last.obs.amount, last.obs.priced_on, last.pre_bank)
        ELSE last.result # "InsufficientLiquidity"

\* A redeem at the boundary: redeem_amount + total_reserves = balance.
C2_Witness ==
    /\ last.op = "redeem"
    /\ last.result = "Ok"
    /\ last.obs.amount > 0
    /\ last.obs.priced_on.total_reserves > 0
    /\ last.obs.amount * DECIMAL_FRACTIONAL + last.obs.priced_on.total_reserves
         = last.pre_bank * DECIMAL_FRACTIONAL

\* C3: after a successful redeem, redeem_amount + total_reserves is at most
\* the balance the call observed, and once the host has executed the
\* transfer the pool still holds at least total_reserves.
C3_ReservesCovered ==
    (last.op = "redeem" /\ last.result = "Ok") =>
        /\ last.obs.amount * DECIMAL_FRACTIONAL
             + read_state(storage).total_reserves
             <= last.pre_bank * DECIMAL_FRACTIONAL
        /\ bank >= last.pre_bank - last.obs.amount
        /\ bank * DECIMAL_FRACTIONAL >= read_state(storage).total_reserves

C3_Witness ==
    /\ last.op = "redeem"
    /\ last.result = "Ok"
    /\ queue = << >>
    /\ last.obs.amount > 0
    /\ bank < last.pre_bank
    /\ read_state(storage).total_reserves > 0
    /\ bank * DECIMAL_FRACTIONAL < read_state(storage).total_reserves + DECIMAL_FRACTIONAL

\* C4: the rate that prices a deposit is the rate of the accrued State, the
\* supply and the balance the pool had before the deposit arrived.
C4_DepositExcluded ==
    (last.op = "deposit" /\ last.obs.priced) =>
        /\ RateIs(last.obs.rate, last.obs.priced_on, last.pre_supply, last.pre_bank)
        /\ last.obs.rate = compute_exchange_rate_raw(last.obs.priced_on,
                               last.pre_supply,
                               last.env_bank - credited(last.funds, StableDenom))

\* A deposit that would have been priced higher had it been counted.
C4_Witness ==
    /\ last.op = "deposit"
    /\ last.result = "Ok"
    /\ last.pre_supply > 0
    /\ last.env_bank > last.pre_bank
    /\ ~RateIs(last.obs.rate, last.obs.priced_on, last.pre_supply, last.env_bank)

\* Scenario A of the specification: the first deposit, of 1,000,000, into an
\* empty pool mints 1,000,000.
ScenarioA ==
    LET r == deposit_stable(
                 [config |-> Config, state |-> InitialState],
                 [sent_funds |-> << Coin(StableDenom, 1000000) >>,
                  sender |-> "alice", height |-> 0, bank |-> 1000000,
                  supply |-> 0, fault |-> "none", interest_factor |-> 0,
                  reserve_factor |-> 0, tax_rate |-> 0])
    IN /\ r.result = "Ok"
       /\ r.obs.rate = Decimal256_one
       /\ r.obs.amount = 1000000
       /\ read_state(r.storage).prev_aterra_supply = 1000000

\* Scenario B of the specification, in thousands: supply 1,000, liabilities
\* 100, reserves 10 and balance 900 give the rate 0.99, at which a deposit
\* of 99 mints 100.
ScenarioB ==
    LET state == [InitialState EXCEPT
                     !.total_liabilities = Decimal256_from_uint256(100),
                     !.total_reserves = Decimal256_from_uint256(10),
                     !.prev_aterra_supply = 1000]
        r == deposit_stable(
                 [config |-> Config, state |-> state],
                 [sent_funds |-> << Coin(StableDenom, 99) >>,
                  sender |-> "alice", height |-> 0, bank |-> 900 + 99,
                  supply |-> 1000, fault |-> "none", interest_factor |-> 0,
                  reserve_factor |-> 0, tax_rate |-> 0])
    IN /\ r.result = "Ok"
       /\ r.obs.rate = 99
       /\ r.obs.amount = 100
       /\ read_state(r.storage).prev_aterra_supply = 1100

\* C5: a successful deposit of D at rate R mints floor(D / R), the largest
\* m with m * R <= D, and the persisted State is the accrued State with
\* prev_aterra_supply increased by exactly that amount.
C5_MintAmount ==
    /\ ScenarioA
    /\ ScenarioB
    /\ (last.op = "deposit" /\ last.result = "Ok") =>
        LET D == last.env_bank - last.pre_bank
            m == last.obs.amount
        IN /\ D = last.obs.deposit_amount
           /\ m * last.obs.rate <= D * DECIMAL_FRACTIONAL
           /\ D * DECIMAL_FRACTIONAL < (m + 1) * last.obs.rate
           /\ read_state(storage) =
                [last.obs.priced_on EXCEPT !.prev_aterra_supply = @ + m]
           /\ last.obs.priced_on.prev_aterra_supply
                = last.pre_state.prev_aterra_supply

\* A deposit priced above one, with the accrual having moved the State.
C5_Witness ==
    /\ last.op = "deposit"
    /\ last.result = "Ok"
    /\ last.obs.rate > DECIMAL_FRACTIONAL
    /\ last.obs.amount > 0
    /\ last.obs.amount < last.obs.deposit_amount
    /\ last.obs.priced_on.total_liabilities > last.pre_state.total_liabilities
    /\ read_state(storage).prev_aterra_supply
         = last.pre_state.prev_aterra_supply + last.obs.amount

\* C7: a deposit whose funds hold no positive amount of the base asset
\* (no funds, 0 of the base asset, other denominations only) fails with
\* the invalid-input error before the accrual step is entered: the State,
\* its accrual checkpoint included, is unchanged.
C7_ZeroDeposit ==
    (last.op = "deposit" /\ NoBaseAsset(last.funds)) =>
        /\ last.result = "InvalidInput"
        /\ last.obs.deposit_amount = 0
        /\ last.obs.hint = NoDeposit
        /\ ~last.obs.accrued
        /\ ~last.obs.stored
        /\ last.obs.state = last.pre_state
        /\ read_state(storage) = last.pre_state
        /\ queue = << >>

\* Other denominations only, in a block later than the checkpoint, with an
\* accrual engine that would have failed.
C7_Witness ==
    /\ last.op = "deposit"
    /\ last.funds = << Coin(OtherDenom, 1) >>
    /\ last.fault = "accrual"
    /\ last.result = "InvalidInput"
    /\ last.height > last.pre_state.last_interest_updated
    /\ last.pre_state.total_liabilities > 0
    /\ read_state(storage).last_interest_updated
         = last.pre_state.last_interest_updated

\* C10: a redeem prices on the balance as measured, gives the accrual step
\* no hint, and owes redeem_amount = floor(burn_amount * rate).
C10_RedeemPricing ==
    (last.op = "redeem" /\ last.obs.priced) =>
        /\ RateIs(last.obs.rate, last.obs.priced_on, last.pre_supply, last.pre_bank)
        /\ last.obs.hint = NoDeposit
        /\ last.obs.amount * DECIMAL_FRACTIONAL <= last.burn * last.obs.rate
        /\ last.burn * last.obs.rate < (last.obs.amount + 1) * DECIMAL_FRACTIONAL

\* A redeem whose product is truncated.
C10_Witness ==
    /\ last.op = "redeem"
    /\ last.result = "Ok"
    /\ last.pre_bank > 0
    /\ last.burn > 0
    /\ last.obs.amount > 0
    /\ last.obs.amount * DECIMAL_FRACTIONAL < last.burn * last.obs.rate

----------------------------------------------------------------------------
(* The rate calculator and the two pricing formulas on their own: the      *)
(* inputs are drawn from a grid of States, balances and supplies, a quote  *)
(* computes the rate, and a deposit priced at that rate is redeemed at the *)
(* same rate.                                                              *)

LiabilityGrid == {0, 50, 100, 250}
ReserveGrid == {0, 25, 100, 300}

RateStates ==
    {[InitialState EXCEPT !.total_liabilities = l, !.total_reserves = r] :
        l \in LiabilityGrid, r \in ReserveGrid}

InitRate ==
    /\ supply \in 0..MaxSupply
    /\ bank \in 0..MaxBank
    /\ \E st \in RateStates :
         storage = [config |-> Config,
                    state |-> [st EXCEPT !.prev_aterra_supply = supply]]
    /\ height = 0
    /\ queue = << >>
    /\ last = NoCall

\* compute_exchange_rate_raw(state, supply, balance)
Quote ==
    /\ last.op = "none"
    /\ LET rate == compute_exchange_rate_raw(read_state(storage), supply, bank)
       IN last' = [NoCall EXCEPT
                      !.op = "quote",
                      !.result = IF rate = Panicked THEN "Panic" ELSE "Ok",
                      !.pre_state = read_state(storage),
                      !.pre_bank = bank,
                      !.pre_supply = supply,
                      !.env_bank = bank,
                      !.obs.priced = (rate # Panicked),
                      !.obs.priced_on = read_state(storage),
                      !.obs.rate = rate]
    /\ UNCHANGED <<storage, bank, supply, height, queue>>

\* mint_amount = deposit_amount / exchange_rate
QuoteDeposit(deposit_amount) ==
    /\ last.op = "quote"
    /\ last.result = "Ok"
    /\ last.obs.rate > 0
    /\ last' = [last EXCEPT
                   !.op = "quote_deposit",
                   !.obs.deposit_amount = deposit_amount,
                   !.obs.amount = mint_amount_of(deposit_amount, last.obs.rate)]
    /\ UNCHANGED <<storage, bank, supply, height, queue>>

\* redeem_amount = burn_amount * exchange_rate, for the amount just minted
QuoteRedeem ==
    /\ last.op = "quote_deposit"
    /\ last' = [last EXCEPT
                   !.op = "round_trip",
                   !.burn = last.obs.amount,
                   !.obs.amount = redeem_amount_of(last.obs.amount, last.obs.rate)]
    /\ UNCHANGED <<storage, bank, supply, height, queue>>

QuoteDepositCall ==
    \E deposit_amount \in 1..MaxDeposit : QuoteDeposit(deposit_amount)

NextRate ==
    \/ Quote
    \/ QuoteDepositCall
    \/ QuoteRedeem

SpecRate == InitRate /\ [][NextRate]_vars

\* C6, as stated: a deposit of D redeemed at once at the same rate returns
\* r with D - 1 <= r <= D, whatever the rate.
C6_RoundTripOneUnit ==
    last.op = "round_trip" =>
        /\ last.obs.deposit_amount - 1 <= last.obs.amount
        /\ last.obs.amount <= last.obs.deposit_amount

\* C6, amended: the round trip returns r <= D and loses less than the
\* value of one receipt token plus one unit, D - r < rate + 1; at a rate of
\* at most one this is D - 1 <= r <= D.
C6_RoundTripBounded ==
    last.op = "round_trip" =>
        LET D == last.obs.deposit_amount
            r == last.obs.amount
        IN /\ D > 0
           /\ r <= D
           /\ (D - r) * DECIMAL_FRACTIONAL < last.obs.rate + DECIMAL_FRACTIONAL
           /\ last.obs.rate <= DECIMAL_FRACTIONAL => D - 1 <= r

\* A round trip at a rate above one that loses two units.
C6_Witness ==
    /\ last.op = "round_trip"
    /\ last.obs.rate > DECIMAL_FRACTIONAL
    /\ last.obs.amount = last.obs.deposit_amount - 2

\* C8: with no receipt supply the rate is exactly one, whatever the
\* balance, the liabilities and the reserves.
C8_BootstrapRate ==
    (last.op = "quote" /\ last.pre_supply = 0) =>
        /\ last.result = "Ok"
        /\ last.obs.rate = Decimal256_one
        /\ last.obs.rate = Decimal256_from_uint256(1)

\* No supply, and reserves above balance + liabilities.
C8_Witness ==
    /\ last.op = "quote"
    /\ last.pre_supply = 0
    /\ last.pre_state.total_reserves
         > Decimal256_from_uint256(last.pre_bank) + last.pre_state.total_liabilities
    /\ last.obs.rate = DECIMAL_FRACTIONAL

NetAssets(state, balance) ==
    Decimal256_from_uint256(balance) + state.total_liabilities
        - state.total_reserves

\* C9: with receipt supply, the rate returned is
\* (balance + liabilities - reserves) / supply truncated to the scale, and
\* for the same supply no input with at least these net assets gets a lower
\* rate.
C9_RateFormula ==
    (last.op = "quote" /\ last.pre_supply > 0 /\ last.result = "Ok") =>
        /\ RateIs(last.obs.rate, last.pre_state, last.pre_supply, last.pre_bank)
        /\ \A st \in RateStates, balance \in 0..MaxBank :
             LET other == compute_exchange_rate_raw(st, last.pre_supply, balance)
             IN (other # Panicked
                   /\ NetAssets(st, balance)
                        >= NetAssets(last.pre_state, last.pre_bank))
                  => other >= last.obs.rate

\* A rate that is truncated: net assets of 3.25 over a supply of 3.
C9_Witness ==
    /\ last.op = "quote"
    /\ last.result = "Ok"
    /\ last.pre_supply = 3
    /\ NetAssets(last.pre_state, last.pre_bank) = 325
    /\ last.obs.rate = 108

----------------------------------------------------------------------------
(* Properties of the commands queued, of the supply mirror and of the      *)
(* order of the steps, on Spec.                                            *)

\* The step in which a handler returns.
Returns(op) == last.op = "none" /\ last'.op = op

\* The transfer tax on the amount a redeem owes.
TaxOn(call) == compute_tax([tax_rate |-> call.tax_rate], call.obs.amount)

\* C11: a successful redeem queues exactly two commands, first the Burn of
\* burn_amount addressed to the receipt-token contract, then the Transfer
\* from the pool to the recipient of redeem_amount net of the tax; a redeem
\* that fails (the solvency guard included) queues neither.
C11_RedeemCommands ==
    [][Returns("redeem") =>
        IF last'.result = "Ok"
        THEN /\ Len(queue') = 2
             /\ queue'[1].type = "Burn"
             /\ queue'[1].contract = ATerraContract
             /\ queue'[1].amount = last'.burn
             /\ queue'[2].type = "Send"
             /\ queue'[2].contract = MarketContract
             /\ queue'[2].recipient = last'.sender
             /\ queue'[2].amount = last'.obs.amount - TaxOn(last')
        ELSE queue' = << >>]_vars

\* A redeem just returned: Burn then a Transfer reduced by the tax.
C11_Witness ==
    /\ last.op = "redeem"
    /\ last.result = "Ok"
    /\ last.burn > 0
    /\ Len(queue) = 2
    /\ queue[1].type = "Burn"
    /\ queue[2].type = "Send"
    /\ queue[2].amount > 0
    /\ queue[2].amount < last.obs.amount
    /\ supply = last.pre_supply
    /\ bank = last.pre_bank

\* C12: a successful deposit queues exactly one command, the Mint of
\* mint_amount to the caller addressed to the receipt-token contract, and
\* no Burn or Transfer; a failed deposit queues nothing.
C12_DepositCommands ==
    [][Returns("deposit") =>
        IF last'.result = "Ok"
        THEN /\ Len(queue') = 1
             /\ queue'[1].type = "Mint"
             /\ queue'[1].contract = ATerraContract
             /\ queue'[1].recipient = last'.sender
             /\ queue'[1].recipient \in Users
             /\ queue'[1].amount = last'.obs.amount
        ELSE queue' = << >>]_vars

\* A deposit just returned with its Mint queued.
C12_Witness ==
    /\ last.op = "deposit"
    /\ last.result = "Ok"
    /\ last.obs.amount > 0
    /\ Len(queue) = 1
    /\ queue[1].type = "Mint"
    /\ queue[1].amount = last.obs.amount
    /\ supply = last.pre_supply

\* The receipt tokens the queued commands of one type still have to move.
RECURSIVE Pending(_, _)
Pending(msgs, type) ==
    IF msgs = << >> THEN 0
    ELSE (IF Head(msgs).type = type THEN Head(msgs).amount ELSE 0)
         + Pending(Tail(msgs), type)

\* C13: prev_aterra_supply mirrors the receipt token's supply: a deposit
\* adds exactly the amount it mints and a redeem subtracts exactly
\* burn_amount, so once the host has executed the queued Mint and Burn the
\* two are equal again.
C13_SupplyMirror ==
    /\ read_state(storage).prev_aterra_supply
         = supply + Pending(queue, "Mint") - Pending(queue, "Burn")
    /\ queue = << >> => read_state(storage).prev_aterra_supply = supply
    /\ (last.op = "deposit" /\ last.result = "Ok") =>
          read_state(storage).prev_aterra_supply
              = last.pre_state.prev_aterra_supply + last.obs.amount
    /\ (last.op = "redeem" /\ last.result = "Ok") =>
          read_state(storage).prev_aterra_supply
              = last.pre_state.prev_aterra_supply - last.burn

\* A redeem that burnt part of the supply, its commands executed.
C13_Witness ==
    /\ last.op = "redeem"
    /\ last.result = "Ok"
    /\ last.burn > 0
    /\ queue = << >>
    /\ supply > 0
    /\ supply = last.pre_supply - last.burn
    /\ read_state(storage).prev_aterra_supply = supply

\* The States the accrual step can leave for the call: the stored State
\* accrued to the block of the call, for each rate the engine may apply.
AccruedStates(call) ==
    {compute_reward(
         compute_interest([fault |-> "none", interest_factor |-> r[1],
                           reserve_factor |-> r[2]],
                          call.pre_state, call.height, call.obs.hint).state,
         call.height) : r \in AccrualRates}

\* C14: both handlers accrue, then price, then apply, persist and emit:
\* the rate and the guard's total_reserves are those of the State accrued
\* to the current block, and the State persisted on success is that
\* accrued State with the supply change applied.
C14_StepOrder ==
    (IsCall /\ last.obs.priced) =>
        /\ last.obs.accrued
        /\ last.obs.priced_on \in AccruedStates(last)
        /\ last.obs.priced_on.last_interest_updated >= last.height
        /\ RateIs(last.obs.rate, last.obs.priced_on, last.pre_supply,
                  last.pre_bank)
        /\ (last.op = "redeem" /\ last.obs.guarded) =>
              ((last.result = "InsufficientLiquidity")
                 <=> Insolvent(last.obs.amount, last.obs.priced_on, last.pre_bank))
        /\ last.result = "Ok" =>
              /\ last.obs.stored
              /\ read_state(storage) =
                    [last.obs.priced_on EXCEPT !.prev_aterra_supply =
                        IF last.op = "deposit"
                        THEN @ + last.obs.amount
                        ELSE @ - last.burn]

\* A redeem in a block in which interest accrued: the stored State would
\* have given another rate, and the persisted State holds the accrual.
C14_Witness ==
    /\ last.op = "redeem"
    /\ last.result = "Ok"
    /\ last.burn > 0
    /\ last.obs.priced_on.total_reserves > last.pre_state.total_reserves
    /\ ~RateIs(last.obs.rate, last.pre_state, last.pre_supply, last.pre_bank)
    /\ read_state(storage).total_reserves = last.obs.priced_on.total_reserves
    /\ read_state(storage).last_interest_updated = last.height
    /\ read_state(storage).prev_aterra_supply < last.pre_state.prev_aterra_supply

\* C15: redeem_stable has no positivity check: with no collaborator
\* failing, a redeem of burn_amount 0 succeeds exactly when total_reserves
\* (as accrued) is at most the balance, leaves prev_aterra_supply as it
\* was and queues Burn(0) followed by a Transfer of 0.
C15_ZeroBurn ==
    [][(Returns("redeem") /\ last'.burn = 0 /\ last'.fault = "none") =>
        /\ last'.result # "InvalidInput"
        /\ (last'.result = "Ok")
             <=> (last'.obs.state.total_reserves
                    <= Decimal256_from_uint256(bank))
        /\ last'.result = "Ok" =>
             /\ last'.obs.amount = 0
             /\ read_state(storage').prev_aterra_supply
                  = read_state(storage).prev_aterra_supply
             /\ Len(queue') = 2
             /\ queue'[1].type = "Burn"
             /\ queue'[1].amount = 0
             /\ queue'[2].type = "Send"
             /\ queue'[2].amount = 0]_vars

\* A redeem of nothing that succeeded in a pool with supply and reserves.
C15_Witness ==
    /\ last.op = "redeem"
    /\ last.burn = 0
    /\ last.result = "Ok"
    /\ last.pre_supply > 0
    /\ last.obs.state.total_reserves > 0
    /\ Len(queue) = 2
    /\ queue[1].amount = 0
    /\ queue[2].amount = 0

\* The rate the next call computes in the same block (no accrual) on the
\* State, supply and balance as they are now.
NextRateNow == compute_exchange_rate_raw(read_state(storage), supply, bank)

\* C16: a successful deposit into a pool that has supply does not lower
\* the rate: once the Mint is executed, the rate the next call computes is
\* at least the rate the deposit was priced at.
C16_DepositKeepsRate ==
    (last.op = "deposit" /\ last.result = "Ok" /\ queue = << >>
        /\ last.pre_supply > 0) =>
        /\ supply = last.pre_supply + last.obs.amount
        /\ bank = last.pre_bank + last.obs.deposit_amount
        /\ NextRateNow # Panicked
        /\ NextRateNow >= last.obs.rate

\* A deposit that minted and left the rate higher than it was priced at.
C16_Witness ==
    /\ last.op = "deposit"
    /\ last.result = "Ok"
    /\ queue = << >>
    /\ last.pre_supply > 0
    /\ last.obs.amount > 0
    /\ supply = last.pre_supply + last.obs.amount
    /\ NextRateNow > last.obs.rate

\* C17: a successful redeem that leaves supply does not lower the rate:
\* once the Burn and the Transfer are executed, the rate the next call
\* computes is at least the rate the redeem was priced at.
C17_RedeemKeepsRate ==
    (last.op = "redeem" /\ last.result = "Ok" /\ queue = << >>
        /\ supply > 0) =>
        /\ supply = last.pre_supply - last.burn
        /\ bank >= last.pre_bank - last.obs.amount
        /\ NextRateNow # Panicked
        /\ NextRateNow >= last.obs.rate

\* A redeem that paid out and left the rate higher than it was priced at.
C17_Witness ==
    /\ last.op = "redeem"
    /\ last.result = "Ok"
    /\ queue = << >>
    /\ supply > 0
    /\ last.burn > 0
    /\ bank < last.pre_bank
    /\ NextRateNow > last.obs.rate

\* C18: the only input check of deposit_stable is deposit_amount > 0: a
\* deposit of 0 < D < rate is priced, succeeds with mint_amount 0, leaves
\* prev_aterra_supply as it was and queues Mint(0), and the pool keeps D.
C18_ZeroMint ==
    [][(Returns("deposit") /\ last'.fault = "none"
          /\ credited(last'.funds, StableDenom) > 0) =>
        LET D == credited(last'.funds, StableDenom)
        IN /\ last'.result \in {"Ok", "Panic"}
           /\ (last'.obs.priced
                 /\ D * DECIMAL_FRACTIONAL < last'.obs.rate) =>
                /\ last'.result = "Ok"
                /\ last'.obs.amount = 0
                /\ read_state(storage').prev_aterra_supply
                     = read_state(storage).prev_aterra_supply
                /\ Len(queue') = 1
                /\ queue'[1].type = "Mint"
                /\ queue'[1].amount = 0
                /\ bank' = bank + D]_vars

\* A deposit below the rate: nothing minted, the funds kept.
C18_Witness ==
    /\ last.op = "deposit"
    /\ last.result = "Ok"
    /\ last.obs.deposit_amount > 0
    /\ last.obs.deposit_amount * DECIMAL_FRACTIONAL < last.obs.rate
    /\ last.obs.amount = 0
    /\ Len(queue) = 1
    /\ queue[1].amount = 0
    /\ bank = last.pre_bank + last.obs.deposit_amount
    /\ read_state(storage).prev_aterra_supply
         = last.pre_state.prev_aterra_supply

\* C19: prev_aterra_supply never goes below zero: a redeem of more than
\* the stored prev_aterra_supply aborts at the subtraction, before
\* store_state, also when the solvency guard has passed; nothing is
\* persisted and no Burn or Transfer is queued.
C19_NoUnderflow ==
    /\ read_state(storage).prev_aterra_supply >= 0
    /\ (last.op = "redeem"
          /\ last.burn > last.pre_state.prev_aterra_supply) =>
        /\ last.result # "Ok"
        /\ ~last.obs.stored
        /\ read_state(storage) = last.pre_state
        /\ queue = << >>
        /\ (last.obs.guarded
              /\ ~Insolvent(last.obs.amount, last.obs.priced_on, last.pre_bank))
             => last.result = "Panic"

\* A redeem of more than the supply mirror that the solvency guard let pass.
C19_Witness ==
    /\ last.op = "redeem"
    /\ last.burn > last.pre_state.prev_aterra_supply
    /\ last.obs.guarded
    /\ ~Insolvent(last.obs.amount, last.obs.priced_on, last.pre_bank)
    /\ last.result = "Panic"
    /\ queue = << >>
    /\ read_state(storage) = last.pre_state

====
